---- MODULE Spec2Model ----
(***************************************************************************)
(* Model of the BUK calendar scraper (scraper of src/README.md, lines      *)
(* 62-851, and src/scripts/generate-ics.js): date parsing, title cleaning, *)
(* the three extraction strategies, normalisation and deduplicateEvents.   *)
(*                                                                         *)
(* Representation.  A JavaScript string is a sequence of one-character     *)
(* strings; undefined/null is the value Undefined.  A Date is its time     *)
(* value counted in whole days since 1970-01-01 (the workflow runs in UTC, *)
(* so local midnight and UTC midnight coincide and a day is always 24h);   *)
(* the Invalid Date and the number NaN are the value NaN.                  *)
(***************************************************************************)
EXTENDS Integers, Sequences, FiniteSets, TLC

VARIABLES
    pc,                       \* position of main / of the function harness
    interceptedCalendarData,  \* payloads pushed by the response handler
    page,                     \* what page.evaluate can see: widget events, DOM
    apiEvents,                \* candidates mapped from the payloads
    rawEvents,                \* candidates of the strategy being processed
    processedEvents,          \* normalised events, the input of deduplicateEvents
    events,                   \* the list extraction returned
    strategy,                 \* which strategy produced `events`
    thrown,                   \* TRUE once a TypeError escaped extraction
    icsWritten,               \* event lists generateICS wrote to the calendar file
    icsCalls,                 \* event lists generateICS was invoked with
    tried,                    \* the strategies consulted, in order
    failedAt,                 \* the step whose exception ended the try block
    dateStr, parsed,          \* parseDate harness: argument and result
    title, once, twice,       \* cleanTitle harness: argument, clean(x), clean(clean(x))
    eventA, eventB,           \* generateUID harness: two events
    uidA, uidB,               \* generateUID harness: their identifiers
    given,                    \* deduplicateEvents harness: the events as passed
    inputObjs,                \* the objects of the argument array, as they are now
    copyObjs,                 \* the objects deduplicateEvents created
    result,                   \* the returned array: references to objects
    pending,                  \* responses whose response.json() has not resolved yet
    snapshot                  \* the payload list and the pending responses when
                              \* extraction started

vars == <<pc, interceptedCalendarData, page, apiEvents, rawEvents,
          processedEvents, events, strategy, thrown, icsWritten,
          icsCalls, tried, failedAt,
          dateStr, parsed, title, once, twice, eventA, eventB, uidA, uidB,
          given, inputObjs, copyObjs, result, pending, snapshot>>

pipeVars == <<interceptedCalendarData, page, apiEvents, rawEvents,
              processedEvents, events, strategy, thrown, icsWritten,
              icsCalls, tried, failedAt>>
parseVars == <<dateStr, parsed>>
cleanVars == <<title, once, twice>>
uidVars == <<eventA, eventB, uidA, uidB>>
dedupVars == <<given, inputObjs, copyObjs, result>>
asyncVars == <<pending, snapshot>>
harnessVars == <<parseVars, cleanVars, uidVars, dedupVars>>

-----------------------------------------------------------------------------
(* JavaScript values *)

NaN == -999999999
Undefined == <<"undefined">>

IsNaN(n) == n = NaN
Truthy(s) == s # Undefined /\ s # <<>>

\* relational operators and arithmetic: anything with NaN is false / NaN
LT(a, b) == ~IsNaN(a) /\ ~IsNaN(b) /\ a < b
GT(a, b) == ~IsNaN(a) /\ ~IsNaN(b) /\ a > b
LE(a, b) == ~IsNaN(a) /\ ~IsNaN(b) /\ a <= b
Sub(a, b) == IF IsNaN(a) \/ IsNaN(b) THEN NaN ELSE a - b

DigitChars == <<"0", "1", "2", "3", "4", "5", "6", "7", "8", "9">>
IsDigit(c) == \E i \in 1..10 : DigitChars[i] = c
DigitVal(c) == (CHOOSE i \in 1..10 : DigitChars[i] = c) - 1
IsSpace(c) == c = " "

\* String.prototype.trim
RECURSIVE TrimLeft(_)
TrimLeft(s) == IF s # <<>> /\ IsSpace(Head(s)) THEN TrimLeft(Tail(s)) ELSE s
RECURSIVE TrimRight(_)
TrimRight(s) ==
    IF s # <<>> /\ IsSpace(s[Len(s)]) THEN TrimRight(SubSeq(s, 1, Len(s) - 1)) ELSE s
Trim(s) == TrimRight(TrimLeft(s))

RECURSIVE DecimalValue(_)
DecimalValue(s) ==
    IF s = <<>> THEN 0
    ELSE 10 * DecimalValue(SubSeq(s, 1, Len(s) - 1)) + DigitVal(s[Len(s)])

\* Number(part): blank is 0, a run of digits its value, anything else NaN
Number(part) ==
    LET t == Trim(part)
    IN  IF t = <<>> THEN 0
        ELSE IF \A i \in 1..Len(t) : IsDigit(t[i]) THEN DecimalValue(t)
        ELSE NaN

\* dateStr.split(/[/-]/)
IsDateSep(c) == c = "/" \/ c = "-"
RECURSIVE SplitDate(_)
SplitDate(s) ==
    LET seps == {i \in 1..Len(s) : IsDateSep(s[i])}
    IN  IF seps = {} THEN <<s>>
        ELSE LET i == CHOOSE j \in seps : \A k \in seps : j <= k
             IN  <<SubSeq(s, 1, i - 1)>> \o SplitDate(SubSeq(s, i + 1, Len(s)))

-----------------------------------------------------------------------------
(* Date: day number <-> civil fields *)

\* day number of the civil date y-m-d (m in 1..12, any integer d)
DaysFromCivil(y, m, d) ==
    LET yy  == IF m <= 2 THEN y - 1 ELSE y
        era == yy \div 400
        yoe == yy - era * 400
        mp  == IF m > 2 THEN m - 3 ELSE m + 9
        doy == (153 * mp + 2) \div 5 + d - 1
        doe == yoe * 365 + yoe \div 4 - yoe \div 100 + doy
    IN  era * 146097 + doe - 719468

\* getFullYear / getMonth + 1 / getDate of a valid Date
CivilFromDays(z) ==
    LET zz  == z + 719468
        era == zz \div 146097
        doe == zz - era * 146097
        yoe == (doe - doe \div 1460 + doe \div 36524 - doe \div 146096) \div 365
        doy == doe - (365 * yoe + yoe \div 4 - yoe \div 100)
        mp  == (5 * doy + 2) \div 153
        d   == doy - (153 * mp + 2) \div 5 + 1
        m   == IF mp < 10 THEN mp + 3 ELSE mp - 9
    IN  [y |-> IF m <= 2 THEN yoe + era * 400 + 1 ELSE yoe + era * 400,
         m |-> m, d |-> d]

\* the length of a civil month
IsLeap(y) == (y % 4 = 0 /\ y % 100 # 0) \/ y % 400 = 0
DaysInMonth(y, m) ==
    IF m = 2 THEN (IF IsLeap(y) THEN 29 ELSE 28)
    ELSE IF m \in {4, 6, 9, 11} THEN 30 ELSE 31

\* new Date(year, monthIndex, day): out-of-range fields roll over, NaN is Invalid
MakeDate(year, monthIndex, day) ==
    IF IsNaN(year) \/ IsNaN(monthIndex) \/ IsNaN(day) THEN NaN
    ELSE LET yr == IF 0 <= year /\ year <= 99 THEN 1900 + year ELSE year
             ym == yr + (monthIndex \div 12)
             mn == monthIndex % 12
         IN  DaysFromCivil(ym, mn + 1, 1) + day - 1

parseDate_noCentury(s) ==
    IF ~Truthy(s) THEN NaN
    ELSE LET strs  == SplitDate(s)
             parts == [i \in 1..Len(strs) |-> Number(strs[i])]
             part(i) == IF i <= Len(parts) THEN parts[i] ELSE NaN
         IN  IF GT(parts[1], 1900) /\ Len(parts) = 3
             THEN MakeDate(parts[1], Sub(parts[2], 1), parts[3])
             ELSE MakeDate(part(3), Sub(part(2), 1), part(1))

parseDate(s) ==
    IF ~Truthy(s) THEN NaN
    ELSE LET strs  == SplitDate(s)
             parts == [i \in 1..Len(strs) |-> Number(strs[i])]
             part(i) == IF i <= Len(parts) THEN parts[i] ELSE NaN
         IN  IF GT(parts[1], 1900) /\ Len(parts) = 3
             THEN MakeDate(parts[1], Sub(parts[2], 1), parts[3])
             ELSE LET day      == part(1)
                      month    == part(2)
                      year     == part(3)
                      fullYear == IF LT(year, 100) THEN 2000 + year ELSE year
                  IN  MakeDate(fullYear, Sub(month, 1), day)

addDays(date, days) ==
    IF IsNaN(date) THEN NaN
    ELSE LET c == CivilFromDays(date)
         IN  MakeDate(c.y, c.m - 1, c.d + days)

-----------------------------------------------------------------------------
(* cleanTitle *)

StripDayNumber_greedy(s) ==
    IF Len(s) >= 2 /\ IsDigit(s[1]) /\ IsDigit(s[2]) THEN SubSeq(s, 3, Len(s))
    ELSE IF Len(s) >= 1 /\ IsDigit(s[1]) THEN SubSeq(s, 2, Len(s))
    ELSE s

\* title.replace(/^\d{1,2}(?=\D)/, ''): the longest run of one or two leading
\* digits that is followed by a non-digit character is removed
StripDayNumber(s) ==
    IF Len(s) >= 3 /\ IsDigit(s[1]) /\ IsDigit(s[2]) /\ ~IsDigit(s[3])
    THEN SubSeq(s, 3, Len(s))
    ELSE IF Len(s) >= 2 /\ IsDigit(s[1]) /\ ~IsDigit(s[2])
    THEN SubSeq(s, 2, Len(s))
    ELSE s

\* cleaned.replace(/\s+/g, ' ')
CollapseSpaces(s) ==
    LET first == SelectSeq([i \in 1..Len(s) |-> i],
                           LAMBDA i : ~IsSpace(s[i]) \/ i = 1 \/ ~IsSpace(s[i - 1]))
    IN  [k \in 1..Len(first) |-> IF IsSpace(s[first[k]]) THEN " " ELSE s[first[k]]]

cleanTitle_noStrip(t) ==
    IF ~Truthy(t) THEN <<>>
    ELSE Trim(CollapseSpaces(Trim(t)))

cleanTitle(t) ==
    IF ~Truthy(t) THEN <<>>
    ELSE Trim(CollapseSpaces(Trim(StripDayNumber(t))))

-----------------------------------------------------------------------------
(* deduplicateEvents *)

UpperChars == <<"A", "B", "C", "D", "E", "F", "G", "H", "I", "J", "K", "L", "M",
                "N", "O", "P", "Q", "R", "S", "T", "U", "V", "W", "X", "Y", "Z", "É">>
LowerChars == <<"a", "b", "c", "d", "e", "f", "g", "h", "i", "j", "k", "l", "m",
                "n", "o", "p", "q", "r", "s", "t", "u", "v", "w", "x", "y", "z", "é">>
LowerChar(c) ==
    IF \E i \in 1..Len(UpperChars) : UpperChars[i] = c
    THEN LowerChars[CHOOSE i \in 1..Len(UpperChars) : UpperChars[i] = c]
    ELSE c
\* String.prototype.toLowerCase
ToLowerCase(s) == [i \in 1..Len(s) |-> LowerChar(s[i])]

\* the keys of eventsByTitle, in insertion order
RECURSIVE TitleKeys(_)
TitleKeys(evs) ==
    IF evs = <<>> THEN <<>>
    ELSE LET rest == TitleKeys(SubSeq(evs, 1, Len(evs) - 1))
             key  == ToLowerCase(evs[Len(evs)].title)
         IN  IF \E i \in 1..Len(rest) : rest[i] = key THEN rest ELSE Append(rest, key)

\* eventsByTitle.get(key): the events of one title, in input order
RECURSIVE TitleEvents(_, _)
TitleEvents(evs, key) ==
    IF evs = <<>> THEN <<>>
    ELSE IF ToLowerCase(Head(evs).title) = key
    THEN <<Head(evs)>> \o TitleEvents(Tail(evs), key)
    ELSE TitleEvents(Tail(evs), key)

\* titleEvents.sort((a, b) => a.startDate - b.startDate): stable
RECURSIVE InsertByStart(_, _)
InsertByStart(sorted, e) ==
    IF sorted = <<>> THEN <<e>>
    ELSE IF sorted[Len(sorted)].startDate <= e.startDate THEN Append(sorted, e)
    ELSE Append(InsertByStart(SubSeq(sorted, 1, Len(sorted) - 1), e), sorted[Len(sorted)])
RECURSIVE SortByStart(_)
SortByStart(evs) ==
    IF evs = <<>> THEN <<>>
    ELSE InsertByStart(SortByStart(SubSeq(evs, 1, Len(evs) - 1)), evs[Len(evs)])

MergeInto_overlapOnly(merged, event) ==
    IF merged = <<>> THEN <<event>>
    ELSE LET last == merged[Len(merged)]
             gap  == Sub(event.startDate, last.endDate)
         IN  IF LT(gap, 1)
             THEN IF GT(event.endDate, last.endDate)
                  THEN [merged EXCEPT ![Len(merged)].endDate = event.endDate]
                  ELSE merged
             ELSE Append(merged, event)

\* one turn of the merge loop: `event` against the last merged event
MergeInto_noExtend(merged, event) ==
    IF merged = <<>> THEN <<event>>
    ELSE LET last == merged[Len(merged)]
             gap  == Sub(event.startDate, last.endDate)
         IN  IF LE(gap, 1) THEN merged ELSE Append(merged, event)

MergeInto(merged, event) ==
    IF merged = <<>> THEN <<event>>
    ELSE LET last == merged[Len(merged)]
             gap  == Sub(event.startDate, last.endDate)
         IN  IF LE(gap, 1)
             THEN IF GT(event.endDate, last.endDate)
                  THEN [merged EXCEPT ![Len(merged)].endDate = event.endDate]
                  ELSE merged
             ELSE Append(merged, event)

RECURSIVE MergeAll(_)
MergeAll(sorted) ==
    IF sorted = <<>> THEN <<>>
    ELSE MergeInto(MergeAll(SubSeq(sorted, 1, Len(sorted) - 1)), sorted[Len(sorted)])

RECURSIVE MergeGroups(_, _)
MergeGroups(evs, keys) ==
    IF keys = <<>> THEN <<>>
    ELSE MergeAll(SortByStart(TitleEvents(evs, Head(keys)))) \o MergeGroups(evs, Tail(keys))

deduplicateEvents(evs) == MergeGroups(evs, TitleKeys(evs))

-----------------------------------------------------------------------------
(* Strategy 0: intercepted API payloads *)

\* JSON null; an array wraps its items; an object is a record or a function
JsNull == [type |-> "null"]
Array(items) == [type |-> "array", items |-> items]
IsArray(v) == v.type = "array"
Get(obj, key) == IF key \in DOMAIN obj THEN obj[key] ELSE Undefined
Or(a, b) == IF Truthy(a) THEN a ELSE b

TitleAliases == <<"title", "name", "nombre", "employee_name", "empleado",
                  "description", "descripcion">>
StartAliases == <<"start", "start_date", "fecha_inicio", "startDate", "begin", "inicio">>
EndAliases == <<"end", "end_date", "fecha_fin", "endDate", "finish", "fin">>

RECURSIVE FirstTruthy_lastWins(_, _)
FirstTruthy_lastWins(event, aliases) ==
    IF aliases = <<>> THEN Undefined
    ELSE Or(FirstTruthy_lastWins(event, Tail(aliases)), Get(event, Head(aliases)))

\* event.a || event.b || ... : the first truthy alias
RECURSIVE FirstTruthy(_, _)
FirstTruthy(event, aliases) ==
    IF aliases = <<>> THEN Undefined
    ELSE Or(Get(event, Head(aliases)), FirstTruthy(event, Tail(aliases)))

\* the record list of one payload (the data of JsNull is never asked for it)
EventsOfPayload(data) ==
    IF data.type = "array" THEN data.items
    ELSE IF data.type # "object" THEN <<>>
    ELSE IF IsArray(data.events) THEN data.events.items
    ELSE IF IsArray(data.data) THEN data.data.items
    ELSE IF IsArray(data.results) THEN data.results.items
    ELSE <<>>

\* data.events on null, event.title on null: a TypeError
PayloadThrows(data) ==
    \/ data = JsNull
    \/ \E i \in 1..Len(EventsOfPayload(data)) : EventsOfPayload(data)[i] = JsNull

RECURSIVE CandidatesOfEvents(_)
CandidatesOfEvents(recs) ==
    IF recs = <<>> THEN <<>>
    ELSE LET event == Head(recs)
             ttl   == FirstTruthy(event, TitleAliases)
             start == FirstTruthy(event, StartAliases)
             end   == FirstTruthy(event, EndAliases)
         IN  (IF Truthy(ttl) /\ Truthy(start)
              THEN <<[title |-> cleanTitle(ttl), start |-> start, end |-> end,
                      source |-> "api-intercept"]>>
              ELSE <<>>) \o CandidatesOfEvents(Tail(recs))

RECURSIVE ApiCandidates(_)
ApiCandidates(payloads) ==
    IF payloads = <<>> THEN <<>>
    ELSE CandidatesOfEvents(EventsOfPayload(Head(payloads).data))
             \o ApiCandidates(Tail(payloads))

\* new Date(string) for the strings drawn here: a date-only ISO string with
\* valid fields is that day (UTC midnight), a string without digits is Invalid
DateParse(s) ==
    IF /\ Len(s) = 10
       /\ \A i \in {1, 2, 3, 4, 6, 7, 9, 10} : IsDigit(s[i])
       /\ s[5] = "-" /\ s[8] = "-"
    THEN LET y == DecimalValue(SubSeq(s, 1, 4))
             m == DecimalValue(SubSeq(s, 6, 7))
             d == DecimalValue(SubSeq(s, 9, 10))
         IN  IF m \in 1..12 /\ d \in 1..DaysInMonth(y, m)
             THEN DaysFromCivil(y, m, d)
             ELSE NaN
    ELSE NaN

Description(source) == <<"Imported from BUK", source>>

ValidStart(evs) == SelectSeq(evs, LAMBDA e : ~IsNaN(e.startDate))

NormalizeApi_keepEarlierEnd(event) ==
    LET startDate == DateParse(event.start)
        endRaw    == IF Truthy(event.end) THEN DateParse(event.end) ELSE startDate
        endDate   == IF IsNaN(endRaw) THEN startDate ELSE endRaw
    IN  [title |-> event.title, startDate |-> startDate,
         endDate |-> addDays(endDate, 1),
         allDay |-> TRUE, description |-> Description(event.source)]

NormalizeApi_exclusiveEnd(event) ==
    LET startDate == DateParse(event.start)
        endRaw    == IF Truthy(event.end) THEN DateParse(event.end) ELSE startDate
        endDate   == IF IsNaN(endRaw) \/ LT(endRaw, startDate) THEN startDate ELSE endRaw
    IN  [title |-> event.title, startDate |-> startDate,
         endDate |-> IF endDate = startDate THEN addDays(endDate, 1) ELSE endDate,
         allDay |-> TRUE, description |-> Description(event.source)]

\* the map callback of the API branch
NormalizeApi(event) ==
    LET startDate == DateParse(event.start)
        endRaw    == IF Truthy(event.end) THEN DateParse(event.end) ELSE startDate
        endDate   == IF IsNaN(endRaw) \/ LT(endRaw, startDate) THEN startDate ELSE endRaw
    IN  [title |-> event.title, startDate |-> startDate,
         endDate |-> addDays(endDate, 1),
         allDay |-> TRUE, description |-> Description(event.source)]

ProcessApi(cands) == ValidStart([i \in 1..Len(cands) |-> NormalizeApi(cands[i])])

-----------------------------------------------------------------------------
(* Strategy 1: the FullCalendar API *)

FullCalendarFound_noNullCheck(fc) == fc = JsNull \/ Len(fc.items) > 0

\* fullCalendarEvents && fullCalendarEvents.length > 0
FullCalendarFound(fc) == fc # JsNull /\ Len(fc.items) > 0

\* .filter(e => e.title) on a list that cannot be filtered
FullCalendarThrows(fc) ==
    fc = JsNull \/ \E i \in 1..Len(fc.items) : fc.items[i] = JsNull

\* the map callback of the FullCalendar branch
NormalizeFullCalendar(event) ==
    LET startDate == IF Truthy(event.start) THEN DateParse(event.start) ELSE NaN
        endDate   == IF Truthy(event.end) THEN DateParse(event.end)
                     ELSE addDays(startDate, 1)
    IN  [title |-> cleanTitle(event.title), startDate |-> startDate,
         endDate |-> endDate, allDay |-> event.allDay # "false",
         description |-> Description("FullCalendar API")]

ProcessFullCalendar(fc) ==
    LET titled == SelectSeq(fc.items, LAMBDA e : Truthy(e.title))
    IN  ValidStart([i \in 1..Len(titled) |-> NormalizeFullCalendar(titled[i])])

-----------------------------------------------------------------------------
(* Strategy 2: the DOM *)

TitleLimit == 200      \* title.length < 200
IndicatorMin == 2      \* title.length > 2
NameMin == 3           \* text.length > 3
NameLimit == 100       \* text.length < 100

\* /^\d+$/.test(title)
AllDigits(s) == s # <<>> /\ \A i \in 1..Len(s) : IsDigit(s[i])
\* textContent?.trim()
TrimText(s) == IF s = Undefined THEN Undefined ELSE Trim(s)

\* text.match(/(\d{1,2})[/-](\d{1,2})[/-](\d{2,4})/)
DateMatch(s) ==
    \E i \in 1..Len(s) : \E a \in 1..2 : \E b \in 1..2 :
        /\ i + a + b + 3 <= Len(s)
        /\ \A k \in i..(i + a - 1) : IsDigit(s[k])
        /\ IsDateSep(s[i + a])
        /\ \A k \in (i + a + 1)..(i + a + b) : IsDigit(s[k])
        /\ IsDateSep(s[i + a + b + 1])
        /\ IsDigit(s[i + a + b + 2]) /\ IsDigit(s[i + a + b + 3])

\* the forEach over .fc-event elements
FcEventCandidate(el) ==
    LET ttl      == Or(TrimText(el.titleText), TrimText(el.text))
        ownStart == Or(el.dataStart, el.dataDate)
        startStr == Or(Or(ownStart, el.cellDate), el.timeDatetime)
    IN  IF ~Truthy(ttl) \/ AllDigits(ttl) THEN <<>>
        ELSE IF Len(ttl) < TitleLimit
        THEN <<[title |-> ttl, start |-> startStr, end |-> el.dataEnd,
                source |-> "fc-event"]>>
        ELSE <<>>

\* the forEach over the multi-day elements
MultiDayCandidate(el) ==
    LET ttl == Or(TrimText(el.titleText), TrimText(el.text))
    IN  IF ~Truthy(ttl) \/ AllDigits(ttl) THEN <<>>
        ELSE IF Truthy(el.cellDate)
        THEN <<[title |-> ttl, start |-> el.cellDate, end |-> Undefined,
                source |-> "fc-multiday"]>>
        ELSE <<>>

\* one indicator of a day cell
IndicatorCandidate(date, text) ==
    LET ttl == TrimText(text)
    IN  IF Truthy(ttl) /\ ~AllDigits(ttl) /\ Len(ttl) > IndicatorMin /\ Len(ttl) < TitleLimit
        THEN <<[title |-> ttl, start |-> date, end |-> Undefined,
                source |-> "daycell-indicator"]>>
        ELSE <<>>

RECURSIVE Flatten(_)
Flatten(seqs) == IF seqs = <<>> THEN <<>> ELSE Head(seqs) \o Flatten(Tail(seqs))

DayCellCandidates(cell) ==
    IF ~Truthy(cell.date) THEN <<>>
    ELSE Flatten([i \in 1..Len(cell.indicators) |->
                      IndicatorCandidate(cell.date, cell.indicators[i])])

\* the loop over the cells of one table row
RECURSIVE ScanCells(_, _)
ScanCells(cells, acc) ==
    IF cells = <<>> THEN acc
    ELSE LET text == TrimText(Head(cells))
             next ==
                 IF ~Truthy(text) THEN acc
                 ELSE IF DateMatch(text)
                 THEN IF ~Truthy(acc.startDate) THEN [acc EXCEPT !.startDate = text]
                      ELSE IF ~Truthy(acc.endDate) THEN [acc EXCEPT !.endDate = text]
                      ELSE acc
                 ELSE IF Len(text) > NameMin /\ Len(text) < NameLimit /\ ~Truthy(acc.name)
                 THEN [acc EXCEPT !.name = text]
                 ELSE acc
         IN  ScanCells(Tail(cells), next)

TableRowCandidate(cells) ==
    IF Len(cells) < 2 THEN <<>>
    ELSE LET r == ScanCells(cells, [name |-> Undefined, startDate |-> Undefined,
                                    endDate |-> Undefined])
         IN  IF Truthy(r.name) /\ Truthy(r.startDate)
             THEN <<[title |-> r.name, start |-> r.startDate, end |-> r.endDate,
                     source |-> "table"]>>
             ELSE <<>>

\* extractedEvents of the page.evaluate of the DOM fallback
DomCandidates(pg) ==
    Flatten([i \in 1..Len(pg.fcEvents) |-> FcEventCandidate(pg.fcEvents[i])])
        \o Flatten([i \in 1..Len(pg.multiDayEvents) |-> MultiDayCandidate(pg.multiDayEvents[i])])
        \o Flatten([i \in 1..Len(pg.dayCells) |-> DayCellCandidates(pg.dayCells[i])])
        \o Flatten([i \in 1..Len(pg.tableRows) |-> TableRowCandidate(pg.tableRows[i])])

NormalizeDom_keepEnd(event) ==
    LET startDate == parseDate(event.start)
        endRaw    == IF Truthy(event.end) THEN parseDate(event.end) ELSE addDays(startDate, 1)
    IN  [title |-> cleanTitle(event.title), startDate |-> startDate, endDate |-> endRaw,
         allDay |-> TRUE, description |-> Description(event.source)]

\* the map callback of the DOM branch
NormalizeDom(event) ==
    LET startDate == parseDate(event.start)
        endRaw    == IF Truthy(event.end) THEN parseDate(event.end) ELSE addDays(startDate, 1)
        endDate   == IF IsNaN(endRaw) \/ LE(endRaw, startDate)
                     THEN addDays(startDate, 1) ELSE endRaw
    IN  [title |-> cleanTitle(event.title), startDate |-> startDate, endDate |-> endDate,
         allDay |-> TRUE, description |-> Description(event.source)]

ProcessDom(cands) ==
    LET kept == SelectSeq(cands, LAMBDA e : Truthy(e.start) /\ Truthy(e.title))
    IN  ValidStart([i \in 1..Len(kept) |-> NormalizeDom(kept[i])])

-----------------------------------------------------------------------------
(* Function harnesses: the arguments are drawn from bounded sets *)

MaxRawLen == 3        \* longest free-form date string
MaxTitleLen == 4      \* longest title given to cleanTitle

RECURSIVE StringsUpTo(_, _)
StringsUpTo(alphabet, n) ==
    IF n = 0 THEN {<<>>}
    ELSE LET shorter == StringsUpTo(alphabet, n - 1)
         IN  shorter \cup {Append(s, c) : s \in {t \in shorter : Len(t) = n - 1},
                                          c \in alphabet}

Digits2(n) == <<DigitChars[(n \div 10) + 1], DigitChars[(n % 10) + 1]>>
Digits4(n) == Digits2(n \div 100) \o Digits2(n % 100)
FormatISO(y, m, d) == Digits4(y) \o <<"-">> \o Digits2(m) \o <<"-">> \o Digits2(d)
FormatDMY(d, m, yearDigits, sep) ==
    Digits2(d) \o <<sep>> \o Digits2(m) \o <<sep>> \o yearDigits

Years == {1901, 2024, 2025}
ShortYears == {0, 24, 99}
ValidDates(ys) ==
    {c \in [y : ys, m : 1..12, d : 1..31] : c.d <= DaysInMonth(c.y, c.m)}
\* a month or a day outside its range
BadDates(ys) ==
    {c \in [y : ys, m : {0, 2, 12, 13, 15}, d : {0, 3, 30, 32}] :
        c.m \notin 1..12 \/ c.d \notin 1..DaysInMonth(c.y, c.m)}

IsoStrings == {FormatISO(c.y, c.m, c.d) : c \in ValidDates(Years)}
ShortYearStrings ==
    {FormatDMY(c.d, c.m, Digits2(c.y - 2000), "/") :
        c \in ValidDates({2000 + yy : yy \in ShortYears})}
LongYearStrings == {FormatDMY(c.d, c.m, Digits4(c.y), "-") : c \in ValidDates({2024})}
BadStrings ==
    {FormatISO(c.y, c.m, c.d) : c \in BadDates({2024})}
        \cup {FormatDMY(c.d, c.m, Digits4(c.y), "-") : c \in BadDates({2024})}
MonthFirst == <<"0", "3", "-", "1", "5", "-", "2", "0", "2", "4">>
FourParts == FormatDMY(15, 3, Digits4(2024), "/") \o <<"/", "7">>
DateStrings ==
    IsoStrings \cup ShortYearStrings \cup LongYearStrings \cup BadStrings
        \cup {MonthFirst, FourParts, Undefined}
        \cup StringsUpTo({"1", "9", "/", "-", "x"}, MaxRawLen)

TitleStrings == StringsUpTo({"1", "2", " ", "x"}, MaxTitleLen) \cup {Undefined}

IdlePipe ==
    /\ interceptedCalendarData = <<>>
    /\ page = [fc |-> JsNull, fcEvents |-> <<>>, multiDayEvents |-> <<>>,
               dayCells |-> <<>>, tableRows |-> <<>>]
    /\ apiEvents = <<>>
    /\ rawEvents = <<>>
    /\ processedEvents = <<>>
    /\ events = <<>>
    /\ strategy = "none"
    /\ thrown = FALSE
    /\ icsWritten = <<>>
    /\ icsCalls = <<>>
    /\ tried = <<>>
    /\ failedAt = "none"
IdleParse == dateStr = Undefined /\ parsed = NaN
IdleClean == title = Undefined /\ once = <<>> /\ twice = <<>>
IdleUid == eventA = JsNull /\ eventB = JsNull /\ uidA = JsNull /\ uidB = JsNull
IdleDedup == given = <<>> /\ inputObjs = <<>> /\ copyObjs = <<>> /\ result = <<>>
NotStarted == [read |-> <<>>, inFlight |-> <<>>]
IdleAsync == pending = <<>> /\ snapshot = NotStarted

InitParse ==
    /\ pc = "parse"
    /\ dateStr \in DateStrings
    /\ parsed = NaN
    /\ IdlePipe /\ IdleClean /\ IdleUid /\ IdleDedup /\ IdleAsync

ParseStep ==
    /\ pc = "parse"
    /\ parsed' = parseDate(dateStr)
    /\ pc' = "parsed"
    /\ UNCHANGED <<dateStr, pipeVars, cleanVars, uidVars, dedupVars, asyncVars>>

NextParse == ParseStep
SpecParse == InitParse /\ [][NextParse]_vars

InitClean ==
    /\ pc = "clean"
    /\ title \in TitleStrings
    /\ once = <<>> /\ twice = <<>>
    /\ IdlePipe /\ IdleParse /\ IdleUid /\ IdleDedup /\ IdleAsync

CleanOnce ==
    /\ pc = "clean"
    /\ once' = cleanTitle(title)
    /\ pc' = "cleaned"
    /\ UNCHANGED <<title, twice, pipeVars, parseVars, uidVars, dedupVars, asyncVars>>

CleanTwice ==
    /\ pc = "cleaned"
    /\ twice' = cleanTitle(once)
    /\ pc' = "recleaned"
    /\ UNCHANGED <<title, once, pipeVars, parseVars, uidVars, dedupVars, asyncVars>>

NextClean == CleanOnce \/ CleanTwice
SpecClean == InitClean /\ [][NextClean]_vars

-----------------------------------------------------------------------------
(* The run: main, the response handler and the extraction strategies *)

MaxPayloads == 1      \* intercepted responses in one run
MaxDom == 2           \* .fc-event elements on the page
MaxWidget == 1        \* events the calendar widget holds

RECURSIVE SeqsUpTo(_, _)
SeqsUpTo(S, n) ==
    IF n = 0 THEN {<<>>}
    ELSE LET shorter == SeqsUpTo(S, n - 1)
         IN  shorter \cup {Append(q, x) : q \in {t \in shorter : Len(t) = n - 1}, x \in S}

Juan == <<"J", "u", "a", "n", " ", "P", "é", "r", "e", "z">>
FiveJuan == <<"5">> \o Juan
Ana == <<"A", "n", "a">>
Garbage == <<"x">>
Jan(d) == FormatISO(2024, 1, d)
Feb(d) == FormatISO(2024, 2, d)

\* intercepted records and payloads
ApiRecords ==
    [full    |-> [title |-> Juan, start |-> Feb(1), end |-> Feb(5)],
     noEnd   |-> [name |-> FiveJuan, start_date |-> Feb(6)],
     endFirst |-> [title |-> Ana, start |-> Feb(3), end |-> Feb(1)],
     badStart |-> [title |-> Ana, start |-> Garbage],
     monthEnd |-> [nombre |-> Ana, fecha_inicio |-> Feb(28), fecha_fin |-> Feb(29)],
     noStart |-> [descripcion |-> Ana],
     blankTitle |-> [title |-> <<"5", " ">>, start |-> Feb(10)],
     aliased |-> [title |-> <<>>, name |-> Ana, nombre |-> Juan,
                  start_date |-> Feb(12), startDate |-> Feb(20),
                  end_date |-> Feb(14), fin |-> Feb(25)],
     badEnd |-> [employee_name |-> Juan, inicio |-> Feb(16), finish |-> Garbage]]
PayloadSamples ==
    {Array(<<ApiRecords.full, ApiRecords.noEnd>>),
     [type |-> "object", events |-> Array(<<ApiRecords.endFirst, ApiRecords.noStart>>),
      data |-> JsNull, results |-> JsNull],
     [type |-> "object", events |-> JsNull, data |-> Array(<<ApiRecords.badStart, ApiRecords.monthEnd>>),
      results |-> JsNull],
     [type |-> "object", events |-> JsNull, data |-> JsNull, results |-> JsNull],
     [type |-> "object", events |-> JsNull, data |-> JsNull,
      results |-> Array(<<ApiRecords.blankTitle, ApiRecords.aliased, ApiRecords.badEnd,
                          ApiRecords.noEnd, ApiRecords.endFirst>>)],
     Array(<<JsNull, ApiRecords.full>>),
     JsNull}

\* the events of the calendar widget
WidgetEvent(ttl, start, end, allDay) ==
    [title |-> ttl, start |-> start, end |-> end, allDay |-> allDay]
WidgetSamples ==
    {WidgetEvent(Juan, Jan(10), Jan(12), "true"),
     WidgetEvent(Ana, Jan(10), Jan(10), "true"),
     WidgetEvent(Ana, Jan(11), Garbage, "absent"),
     WidgetEvent(Ana, Jan(12), Undefined, "false"),
     WidgetEvent(Undefined, Jan(10), Undefined, "true"),
     WidgetEvent(Ana, Garbage, Undefined, "true"),
     JsNull}

\* the elements the DOM strategies select
FcElement(text, cellDate, dataEnd) ==
    [titleText |-> Undefined, text |-> text, dataStart |-> Undefined,
     dataDate |-> Undefined, dataEnd |-> dataEnd, cellDate |-> cellDate,
     timeDatetime |-> Undefined]
FcSamples ==
    {FcElement(FiveJuan, Jan(10), Undefined),
     FcElement(Juan, Jan(11), Undefined),
     FcElement(Juan, Jan(12), Undefined),
     FcElement(Juan, Jan(15), Undefined),
     FcElement(Ana, Jan(10), Jan(13)),
     FcElement(Ana, Jan(14), Jan(14))}

EmptyDom == [fcEvents |-> <<>>, multiDayEvents |-> <<>>, dayCells |-> <<>>,
             tableRows |-> <<>>]
Page(fc, dom) ==
    [fc |-> fc, fcEvents |-> dom.fcEvents, multiDayEvents |-> dom.multiDayEvents,
     dayCells |-> dom.dayCells, tableRows |-> dom.tableRows]
LongTitle == [i \in 1..TitleLimit |-> "x"]
OtherDoms ==
    {[EmptyDom EXCEPT !.multiDayEvents =
          <<[titleText |-> Juan, text |-> FiveJuan, cellDate |-> Jan(13)],
            [titleText |-> Undefined, text |-> Ana, cellDate |-> Undefined],
            [titleText |-> LongTitle, text |-> Undefined, cellDate |-> Jan(20)]>>],
     [EmptyDom EXCEPT !.dayCells =
          <<[date |-> Jan(10), indicators |-> <<<<"1", "0">>, Ana, <<"1", "0", "A">>>>],
            [date |-> Undefined, indicators |-> <<Ana>>]>>],
     [EmptyDom EXCEPT !.tableRows =
          <<<<Juan, FormatDMY(10, 1, Digits4(2024), "/"), FormatDMY(12, 1, Digits2(24), "/")>>,
            <<FormatDMY(14, 1, Digits4(2024), "-"), Juan, Ana>>,
            <<Juan>>,
            <<<<"1", "2", "3", "4", "5">>, FormatDMY(20, 1, Digits4(2024), "/")>>>>],
     [EmptyDom EXCEPT !.fcEvents = <<FcElement(FiveJuan, Jan(10), Undefined),
                                      FcElement(Juan, Jan(11), Undefined),
                                      FcElement(Juan, Jan(12), Undefined)>>],
     [EmptyDom EXCEPT !.fcEvents = <<FcElement(FiveJuan, Jan(10), Undefined),
                                      FcElement(Juan, Jan(11), Undefined),
                                      FcElement(Juan, Jan(15), Undefined)>>],
     [EmptyDom EXCEPT !.fcEvents = <<FcElement(Ana, Jan(10), Jan(13)),
                                      FcElement(Ana, Jan(16), Jan(16)),
                                      FcElement(Ana, Jan(20), Jan(19)),
                                      FcElement(Ana, Jan(24), Garbage),
                                      FcElement(Ana, Jan(28), Undefined)>>],
     [EmptyDom EXCEPT !.fcEvents = <<FcElement(Ana, MonthFirst, Undefined),
                                      FcElement(Ana, Undefined, Undefined),
                                      FcElement(<<"1", "2">>, Jan(10), Undefined)>>]}
\* further widget lists: a range without a valid end followed by the next
\* day, two adjacent days, a title that is a day number and a blank, one
\* title in two letter cases out of date order, and one title twice on one
\* day after an unparseable end and after an end before the start
WidgetScenarios ==
    {<<WidgetEvent(Ana, Jan(11), Garbage, "absent"), WidgetEvent(Ana, Jan(12), Undefined, "false")>>,
     <<WidgetEvent(Juan, Jan(10), Jan(12), "true"), WidgetEvent(Juan, Jan(12), Undefined, "true")>>,
     <<WidgetEvent(<<"5", " ">>, Jan(10), Undefined, "true")>>,
     <<WidgetEvent(<<"a", "n", "a">>, Jan(12), Undefined, "true"),
       WidgetEvent(Ana, Jan(10), Jan(12), "true")>>,
     <<WidgetEvent(Ana, Jan(11), Garbage, "absent"), WidgetEvent(Ana, Jan(11), Undefined, "true")>>,
     <<WidgetEvent(Ana, Jan(12), Jan(8), "true"), WidgetEvent(Ana, Jan(12), Jan(14), "true")>>}
Pages ==
    {Page(JsNull, [EmptyDom EXCEPT !.fcEvents = els]) : els \in SeqsUpTo(FcSamples, MaxDom)}
        \cup {Page(JsNull, dom) : dom \in OtherDoms}
        \cup {Page(Array(evs), EmptyDom) : evs \in WidgetScenarios}
        \cup {Page(Array(evs), dom) : evs \in SeqsUpTo(WidgetSamples, MaxWidget),
                              dom \in {EmptyDom,
                                       [EmptyDom EXCEPT !.fcEvents =
                                            <<FcElement(Juan, Jan(11), Undefined)>>]}}

Init ==
    /\ pc = "boot"
    /\ interceptedCalendarData = <<>>
    /\ page \in Pages
    /\ apiEvents = <<>>
    /\ rawEvents = <<>>
    /\ processedEvents = <<>>
    /\ events = <<>>
    /\ strategy = "none"
    /\ thrown = FALSE
    /\ icsWritten = <<>>
    /\ icsCalls = <<>>
    /\ tried = <<>>
    /\ failedAt = "none"
    /\ IdleParse /\ IdleClean /\ IdleUid /\ IdleDedup /\ IdleAsync

extractVars == <<apiEvents, rawEvents, processedEvents, events, strategy, thrown, tried>>
icsVars == <<icsWritten, icsCalls>>

\* BUK_EMAIL or BUK_PASSWORD is not set: process.exit(1) before main
MissingCredentials ==
    /\ pc = "boot"
    /\ pc' = "exited"
    /\ failedAt' = "credentials"
    /\ UNCHANGED <<interceptedCalendarData, page, extractVars, icsVars, harnessVars, asyncVars>>

\* puppeteer.launch, before the try block of main
Launch ==
    /\ pc = "boot"
    /\ pc' = "start"
    /\ UNCHANGED <<pipeVars, harnessVars, asyncVars>>

\* puppeteer.launch rejects: main rejects, nothing catches it
LaunchFails ==
    /\ pc = "boot"
    /\ pc' = "crashed"
    /\ failedAt' = "launch"
    /\ UNCHANGED <<interceptedCalendarData, page, extractVars, icsVars, harnessVars, asyncVars>>

\* page.on('response'): a calendar-related JSON response is stored
Response ==
    /\ pc \in {"start", "loggedIn", "onCalendar"}
    /\ Len(interceptedCalendarData) < MaxPayloads
    /\ \E data \in PayloadSamples :
           interceptedCalendarData' =
               Append(interceptedCalendarData, [url |-> "calendar", data |-> data])
    /\ UNCHANGED <<pc, page, extractVars, icsVars, failedAt, harnessVars, asyncVars>>

Login ==
    /\ pc = "start"
    /\ pc' = "loggedIn"
    /\ UNCHANGED <<pipeVars, harnessVars, asyncVars>>

\* login throws (no email field, no password field, still on the sign-in page)
LoginFails ==
    /\ pc = "start"
    /\ pc' = "catch"
    /\ failedAt' = "login"
    /\ UNCHANGED <<interceptedCalendarData, page, extractVars, icsVars, harnessVars, asyncVars>>

NavigateToCalendar ==
    /\ pc = "loggedIn"
    /\ pc' = "onCalendar"
    /\ UNCHANGED <<pipeVars, harnessVars, asyncVars>>

\* a page call of navigateToCalendar rejects
NavigateFails ==
    /\ pc = "loggedIn"
    /\ pc' = "catch"
    /\ failedAt' = "navigation"
    /\ UNCHANGED <<interceptedCalendarData, page, extractVars, icsVars, harnessVars, asyncVars>>

Wait ==
    /\ pc = "onCalendar"
    /\ pc' = "extract"
    /\ UNCHANGED <<pipeVars, harnessVars, asyncVars>>

\* extractEventsWithInterceptedData up to its return or its fall back
ExtractIntercepted ==
    /\ pc = "extract"
    /\ tried' = Append(tried, "api")
    /\ IF Len(interceptedCalendarData) = 0
       THEN /\ pc' = "fullcalendar"
            /\ UNCHANGED <<apiEvents, rawEvents, processedEvents, events, strategy,
                           thrown, failedAt>>
       ELSE IF \E i \in 1..Len(interceptedCalendarData) :
                   PayloadThrows(interceptedCalendarData[i].data)
       THEN /\ thrown' = TRUE
            /\ failedAt' = "extraction"
            /\ pc' = "catch"
            /\ UNCHANGED <<apiEvents, rawEvents, processedEvents, events, strategy>>
       ELSE LET cands     == ApiCandidates(interceptedCalendarData)
                processed == ProcessApi(cands)
            IN  /\ apiEvents' = cands
                /\ IF Len(cands) > 0 /\ Len(processed) > 0
                   THEN /\ rawEvents' = cands
                        /\ processedEvents' = processed
                        /\ events' = deduplicateEvents(processed)
                        /\ strategy' = "api"
                        /\ pc' = "generate"
                   ELSE /\ pc' = "fullcalendar"
                        /\ UNCHANGED <<rawEvents, processedEvents, events, strategy>>
                /\ UNCHANGED <<thrown, failedAt>>
    /\ snapshot' = [read |-> interceptedCalendarData, inFlight |-> pending]
    /\ UNCHANGED <<interceptedCalendarData, page, icsVars, pending, harnessVars>>

\* extractEvents, strategy 1
ExtractFullCalendar ==
    /\ pc = "fullcalendar"
    /\ tried' = Append(tried, "fullcalendar")
    /\ IF ~FullCalendarFound(page.fc)
       THEN /\ pc' = "dom"
            /\ UNCHANGED <<rawEvents, processedEvents, events, strategy, thrown, failedAt>>
       ELSE IF FullCalendarThrows(page.fc)
       THEN /\ thrown' = TRUE
            /\ failedAt' = "extraction"
            /\ pc' = "catch"
            /\ UNCHANGED <<rawEvents, processedEvents, events, strategy>>
       ELSE LET processed == ProcessFullCalendar(page.fc)
            IN  /\ IF Len(processed) > 0
                   THEN /\ rawEvents' = page.fc.items
                        /\ processedEvents' = processed
                        /\ events' = deduplicateEvents(processed)
                        /\ strategy' = "fullcalendar"
                        /\ pc' = "generate"
                   ELSE /\ pc' = "dom"
                        /\ UNCHANGED <<rawEvents, processedEvents, events, strategy>>
                /\ UNCHANGED <<thrown, failedAt>>
    /\ UNCHANGED <<interceptedCalendarData, page, apiEvents, icsVars,
                   harnessVars, asyncVars>>

\* extractEvents, strategy 2
ExtractDom ==
    /\ pc = "dom"
    /\ tried' = Append(tried, "dom")
    /\ rawEvents' = DomCandidates(page)
    /\ processedEvents' = ProcessDom(rawEvents')
    /\ events' = deduplicateEvents(processedEvents')
    /\ strategy' = "dom"
    /\ pc' = "generate"
    /\ UNCHANGED <<interceptedCalendarData, page, apiEvents, thrown, icsVars, failedAt,
                   harnessVars, asyncVars>>

\* generateICS(events): the calendar is built and written
GenerateICS ==
    /\ pc = "generate"
    /\ icsCalls' = Append(icsCalls, events)
    /\ icsWritten' = Append(icsWritten, events)
    /\ pc' = "done"
    /\ UNCHANGED <<interceptedCalendarData, page, extractVars, failedAt,
                   harnessVars, asyncVars>>

\* generateICS(events) throws (createEvent or writeFileSync): nothing is written
GenerateICSFails ==
    /\ pc = "generate"
    /\ icsCalls' = Append(icsCalls, events)
    /\ failedAt' = "write"
    /\ pc' = "catch"
    /\ UNCHANGED <<interceptedCalendarData, page, extractVars, icsWritten,
                   harnessVars, asyncVars>>

\* the catch block of main: generateICS([]) and process.exit(1)
Catch ==
    /\ pc = "catch"
    /\ icsCalls' = Append(icsCalls, <<>>)
    /\ icsWritten' = Append(icsWritten, <<>>)
    /\ pc' = "exited"
    /\ UNCHANGED <<interceptedCalendarData, page, extractVars, failedAt,
                   harnessVars, asyncVars>>

\* the catch block of main when writeFileSync of generateICS([]) throws as well:
\* the exception leaves main and the process ends without a calendar
CatchFails ==
    /\ pc = "catch"
    /\ icsCalls' = Append(icsCalls, <<>>)
    /\ pc' = "crashed"
    /\ UNCHANGED <<interceptedCalendarData, page, extractVars, icsWritten, failedAt,
                   harnessVars, asyncVars>>

Next ==
    \/ MissingCredentials
    \/ Launch
    \/ LaunchFails
    \/ Response
    \/ Login
    \/ LoginFails
    \/ NavigateToCalendar
    \/ NavigateFails
    \/ Wait
    \/ ExtractIntercepted
    \/ ExtractFullCalendar
    \/ ExtractDom
    \/ GenerateICS
    \/ GenerateICSFails
    \/ Catch
    \/ CatchFails

Spec == Init /\ [][Next]_vars

-----------------------------------------------------------------------------
(* The run with the response handler in its two steps: the handler starts  *)
(* when the response arrives and pushes after `await response.json()`.     *)

\* main is suspended in an await while the page is open
AwaitPoints == {"start", "loggedIn", "onCalendar", "fullcalendar", "dom"}

AsyncPages ==
    {Page(JsNull, EmptyDom),
     Page(JsNull, [EmptyDom EXCEPT !.fcEvents = <<FcElement(Juan, Jan(11), Undefined)>>]),
     Page(Array(<<WidgetEvent(Juan, Jan(10), Jan(12), "true")>>), EmptyDom)}

InitAsync ==
    /\ pc = "boot"
    /\ interceptedCalendarData = <<>>
    /\ page \in AsyncPages
    /\ apiEvents = <<>>
    /\ rawEvents = <<>>
    /\ processedEvents = <<>>
    /\ events = <<>>
    /\ strategy = "none"
    /\ thrown = FALSE
    /\ icsWritten = <<>>
    /\ icsCalls = <<>>
    /\ tried = <<>>
    /\ failedAt = "none"
    /\ IdleParse /\ IdleClean /\ IdleUid /\ IdleDedup /\ IdleAsync

\* a calendar-related JSON response arrives: the handler awaits response.json()
ResponseReceived ==
    /\ pc \in AwaitPoints
    /\ Len(interceptedCalendarData) + Len(pending) < MaxPayloads
    /\ \E data \in PayloadSamples : pending' = Append(pending, data)
    /\ UNCHANGED <<pc, interceptedCalendarData, page, extractVars, icsVars, failedAt,
                   snapshot, harnessVars>>

\* response.json() of one waiting handler resolves: the payload is pushed
ResponseParsed ==
    /\ pc \in AwaitPoints
    /\ \E i \in 1..Len(pending) :
           /\ interceptedCalendarData' =
                  Append(interceptedCalendarData, [url |-> "calendar", data |-> pending[i]])
           /\ pending' = SubSeq(pending, 1, i - 1) \o SubSeq(pending, i + 1, Len(pending))
    /\ UNCHANGED <<pc, page, extractVars, icsVars, failedAt, snapshot, harnessVars>>

\* response.json() rejects: the handler's catch ignores the response
ResponseIgnored ==
    /\ pc \in AwaitPoints
    /\ \E i \in 1..Len(pending) :
           pending' = SubSeq(pending, 1, i - 1) \o SubSeq(pending, i + 1, Len(pending))
    /\ UNCHANGED <<pc, interceptedCalendarData, page, extractVars, icsVars, failedAt,
                   snapshot, harnessVars>>

NextAsync ==
    \/ MissingCredentials
    \/ Launch
    \/ LaunchFails
    \/ ResponseReceived
    \/ ResponseParsed
    \/ ResponseIgnored
    \/ Login
    \/ LoginFails
    \/ NavigateToCalendar
    \/ NavigateFails
    \/ Wait
    \/ ExtractIntercepted
    \/ ExtractFullCalendar
    \/ ExtractDom
    \/ GenerateICS
    \/ GenerateICSFails
    \/ Catch
    \/ CatchFails

SpecAsync == InitAsync /\ [][NextAsync]_vars

-----------------------------------------------------------------------------
(* generate-ics.js: generateUID *)

\* new Date(d).toISOString().split('T')[0]
ISODate(d) ==
    LET c == CivilFromDays(d) IN FormatISO(c.y, c.m, c.d)

\* createHash('md5').update(s).digest('hex'): the digest stands for the
\* string it was computed from (no collision among the strings drawn here)
Md5(s) == [md5 |-> s]

generateUID_withEnd(event) ==
    [hash |-> Md5(event.title \o <<"|">> \o ISODate(event.startDate)
                      \o <<"|">> \o ISODate(event.endDate)),
     suffix |-> "@buk-calendar-sync"]

generateUID(event) ==
    [hash |-> Md5(event.title \o <<"|">> \o ISODate(event.startDate)),
     suffix |-> "@buk-calendar-sync"]

\* the events the harness draws: every field varies
UidEvents ==
    [title : {Juan, Ana, <<"A", "n", "a", "|">>},
     startDate : {DaysFromCivil(2024, 1, 10), DaysFromCivil(2024, 1, 11)},
     endDate : {DaysFromCivil(2024, 1, 11), DaysFromCivil(2024, 1, 13)},
     allDay : BOOLEAN,
     description : {Description("FullCalendar API"), Description("api-intercept")}]

InitUid ==
    /\ pc = "uid"
    /\ eventA \in UidEvents
    /\ eventB \in UidEvents
    /\ uidA = JsNull /\ uidB = JsNull
    /\ IdlePipe /\ IdleParse /\ IdleClean /\ IdleDedup /\ IdleAsync

\* the two calls may belong to one run or to two
UidStep ==
    /\ pc = "uid"
    /\ uidA' = generateUID(eventA)
    /\ uidB' = generateUID(eventB)
    /\ pc' = "uidDone"
    /\ UNCHANGED <<eventA, eventB, pipeVars, parseVars, cleanVars, dedupVars, asyncVars>>

NextUid == UidStep
SpecUid == InitUid /\ [][NextUid]_vars

-----------------------------------------------------------------------------
(* deduplicateEvents on objects: what the call does to its argument *)

MaxDedupe == 2        \* events in the array passed to deduplicateEvents

\* An object is named by a number: the i-th element of the argument array is
\* object i, the copy made of it is object Len(array) + i.  Dates are values:
\* deduplicateEvents calls no method that changes a Date.

CopyEvent_alias(objs, i) == [objs[i] EXCEPT !.ref = i]

\* eventsByTitle.get(key).push({ ...event }): a new object with the same fields
CopyEvent(objs, i) == [objs[i] EXCEPT !.ref = Len(objs) + i]

\* the events a call can be given (ref is the object's name, see above)
DedupeTitles == {Ana, <<"a", "n", "a">>, Juan}
DedupeEvents ==
    {[ref |-> 0, title |-> t, startDate |-> DaysFromCivil(2024, 1, d),
      endDate |-> DaysFromCivil(2024, 1, d + len),
      allDay |-> TRUE, description |-> Description("fc-event")] :
         t \in DedupeTitles, d \in {10, 11, 13}, len \in {1, 2}}

InitDedupe ==
    /\ pc = "dedupe"
    /\ \E evs \in SeqsUpTo(DedupeEvents, MaxDedupe) :
           given = [i \in 1..Len(evs) |-> [evs[i] EXCEPT !.ref = i]]
    /\ inputObjs = given
    /\ copyObjs = <<>>
    /\ result = <<>>
    /\ IdlePipe /\ IdleParse /\ IdleClean /\ IdleUid /\ IdleAsync

\* deduplicateEvents(events): every assignment to last.endDate lands on the
\* object the merged element refers to
DedupeCall ==
    /\ pc = "dedupe"
    /\ LET n       == Len(inputObjs)
           pushed  == [i \in 1..n |-> CopyEvent(inputObjs, i)]
           merged  == deduplicateEvents(pushed)
           written(obj) ==
               IF \E k \in 1..Len(merged) : merged[k].ref = obj.ref
               THEN [obj EXCEPT !.endDate =
                         merged[CHOOSE k \in 1..Len(merged) : merged[k].ref = obj.ref].endDate]
               ELSE obj
       IN  /\ inputObjs' = [i \in 1..n |-> written(inputObjs[i])]
           /\ copyObjs' = [i \in 1..n |->
                              written([inputObjs[i] EXCEPT !.ref = n + i])]
           /\ result' = [k \in 1..Len(merged) |-> merged[k].ref]
    /\ pc' = "deduped"
    /\ UNCHANGED <<given, pipeVars, parseVars, cleanVars, uidVars, asyncVars>>

NextDedupe == DedupeCall
SpecDedupe == InitDedupe /\ [][NextDedupe]_vars

-----------------------------------------------------------------------------
(* Claims about parseDate and cleanTitle *)

\* C4: cleanTitle is idempotent: cleaning a cleaned title changes nothing.
C4_CleanTitleIdempotent == pc = "recleaned" => twice = once

\* what the claim of C5 calls a malformed date string
PartStrings(s) == SplitDate(s)
NonNumericPart(s) ==
    \E i \in 1..Len(PartStrings(s)) :
        LET t == PartStrings(s)[i]
        IN  t = <<>> \/ \E k \in 1..Len(t) : ~IsDigit(t[k])
\* the three numeric parts read in the order parseDate reads them
FieldsOf(s) ==
    LET n == [i \in 1..3 |-> DecimalValue(PartStrings(s)[i])]
    IN  IF n[1] > 1900 THEN [y |-> n[1], m |-> n[2], d |-> n[3]]
        ELSE [y |-> IF n[3] < 100 THEN 2000 + n[3] ELSE n[3], m |-> n[2], d |-> n[1]]
Malformed(s) ==
    \/ ~Truthy(s)
    \/ Len(PartStrings(s)) # 3
    \/ NonNumericPart(s)
    \/ FieldsOf(s).m \notin 1..12
    \/ FieldsOf(s).d \notin 1..DaysInMonth(FieldsOf(s).y, FieldsOf(s).m)

\* C5: a date string with a non-numeric part, a wrong part count or an
\* out-of-range month or day parses to Invalid ("03-15-2024" included).
C5_MalformedIsInvalid == pc = "parsed" /\ Malformed(dateStr) => IsNaN(parsed)

\* C6: year-month-day when the first of three parts exceeds 1900, else
\* day-month-year with a year below 100 completed by 2000: every valid date
\* written either way parses to that civil date.
C6_ParseDateFormats ==
    pc = "parsed" =>
        /\ \A c \in ValidDates(Years) :
              dateStr = FormatISO(c.y, c.m, c.d) => CivilFromDays(parsed) = c
        /\ \A c \in ValidDates({2000 + yy : yy \in ShortYears}) :
              dateStr = FormatDMY(c.d, c.m, Digits2(c.y - 2000), "/")
                  => CivilFromDays(parsed) = c
        /\ \A c \in ValidDates({2024}) :
              dateStr = FormatDMY(c.d, c.m, Digits4(c.y), "-")
                  => CivilFromDays(parsed) = c
        /\ dateStr = FormatISO(2024, 3, 15) \/ dateStr = FormatDMY(15, 3, Digits2(24), "/")
              => CivilFromDays(parsed) = [y |-> 2024, m |-> 3, d |-> 15]

\* a two-digit-year string has been parsed
C6_Witness ==
    /\ pc = "parsed"
    /\ dateStr = FormatDMY(15, 3, Digits2(24), "/")
    /\ CivilFromDays(parsed) = [y |-> 2024, m |-> 3, d |-> 15]

-----------------------------------------------------------------------------
(* Claims about the run *)

\* extraction has returned `events` to main
Returned ==
    \/ pc \in {"generate", "done"}
    \/ pc \in {"catch", "exited", "crashed"} /\ failedAt = "write"
KeyOf(e) == ToLowerCase(e.title)
KeysOf(evs) == {KeyOf(evs[i]) : i \in 1..Len(evs)}
\* the civil days of the range [startDate, endDate)
DaysOf(e) ==
    IF IsNaN(e.endDate) \/ e.endDate <= e.startDate THEN {}
    ELSE e.startDate..(e.endDate - 1)
Covered(evs, key) ==
    UNION {DaysOf(evs[i]) : i \in {k \in 1..Len(evs) : KeyOf(evs[k]) = key}}

\* C1: two output events of one title group are more than one day apart: the
\* later start minus the earlier event's end exceeds 1 day.
C1_MergedRangesApart ==
    Returned =>
        \A i, j \in 1..Len(events) :
            /\ i # j
            /\ KeyOf(events[i]) = KeyOf(events[j])
            /\ \/ events[i].startDate < events[j].startDate
               \/ events[i].startDate = events[j].startDate /\ i < j
            => GT(Sub(events[j].startDate, events[i].endDate), 1)

\* C2 as stated: per title group the output covers exactly the days the
\* input covers.
C2_CoverageEqual ==
    Returned =>
        \A key \in KeysOf(processedEvents) \cup KeysOf(events) :
            Covered(events, key) = Covered(processedEvents, key)

\* C2 amended: per title group the output covers every day the input covers,
\* and a day it adds is the single day between the end of one input event of
\* the group and the start, one day later, of another.
C2_CoverageNeverShrinks ==
    Returned =>
        LET keys == KeysOf(processedEvents)
        IN  /\ KeysOf(events) = keys
            /\ \A key \in keys :
                  LET before == Covered(processedEvents, key)
                      after  == Covered(events, key)
                  IN  /\ before \subseteq after
                      /\ \A d \in after \ before :
                            \E i, j \in 1..Len(processedEvents) :
                                /\ processedEvents[i].endDate = d
                                /\ processedEvents[j].startDate = d + 1
                                /\ KeyOf(processedEvents[i]) = key
                                /\ KeyOf(processedEvents[j]) = key

\* two events one free day apart have been merged over that day
C2_Witness ==
    /\ Returned
    /\ \E key \in KeysOf(processedEvents) :
           Covered(events, key) # Covered(processedEvents, key)

\* C3: every returned event ends strictly after it starts.
C3_EndAfterStart ==
    Returned => \A i \in 1..Len(events) : GT(events[i].endDate, events[i].startDate)

\* C7: an intercepted record with valid start S and valid end E >= S is
\* normalised to startDate S and endDate E + 1 day; 2024-02-01..2024-02-05
\* gives endDate 2024-02-06.
C7_ApiEndInclusive ==
    strategy = "api" =>
        \A i \in 1..Len(apiEvents) :
            LET S == DateParse(apiEvents[i].start)
                E == IF Truthy(apiEvents[i].end) THEN DateParse(apiEvents[i].end) ELSE NaN
            IN  /\ ~IsNaN(S) /\ ~IsNaN(E) /\ E >= S
                       => \E k \in 1..Len(processedEvents) :
                              /\ processedEvents[k].title = apiEvents[i].title
                              /\ processedEvents[k].startDate = S
                              /\ processedEvents[k].endDate = E + 1
                /\ apiEvents[i].start = Feb(1) /\ apiEvents[i].end = Feb(5)
                       => \E k \in 1..Len(processedEvents) :
                              /\ CivilFromDays(processedEvents[k].startDate)
                                     = [y |-> 2024, m |-> 2, d |-> 1]
                              /\ CivilFromDays(processedEvents[k].endDate)
                                     = [y |-> 2024, m |-> 2, d |-> 6]
                /\ apiEvents[i].start = Feb(28) /\ apiEvents[i].end = Feb(29)
                       => \E k \in 1..Len(processedEvents) :
                              /\ CivilFromDays(processedEvents[k].startDate)
                                     = [y |-> 2024, m |-> 2, d |-> 28]
                              /\ CivilFromDays(processedEvents[k].endDate)
                                     = [y |-> 2024, m |-> 3, d |-> 1]

\* the record 2024-02-01..2024-02-05 has been normalised
C7_Witness ==
    /\ strategy = "api"
    /\ \E i \in 1..Len(apiEvents) : apiEvents[i].start = Feb(1) /\ apiEvents[i].end = Feb(5)
    /\ \E k \in 1..Len(processedEvents) :
           CivilFromDays(processedEvents[k].endDate) = [y |-> 2024, m |-> 2, d |-> 6]

\* the DOM candidates that reach normalisation
DomKept == SelectSeq(DomCandidates(page), LAMBDA e : Truthy(e.start) /\ Truthy(e.title))
JanDay(d) == DaysFromCivil(2024, 1, d)

\* C8: end-less DOM candidates of one cleaned title on k consecutive days
\* D .. D+k-1 come out as the single event [D, D+k); the three candidates
\* "5Juan Pérez" 01-10, "Juan Pérez" 01-11, "Juan Pérez" 01-15 come out as
\* [01-10, 01-12) and [01-15, 01-16).
C8_ConsecutiveDaysCollapse ==
    Returned /\ strategy = "dom" =>
        /\ LET starts == {parseDate(DomKept[i].start) : i \in 1..Len(DomKept)}
           IN  /\ DomKept # <<>>
               /\ \A i \in 1..Len(DomKept) :
                      /\ ~Truthy(DomKept[i].end)
                      /\ cleanTitle(DomKept[i].title) = cleanTitle(DomKept[1].title)
               /\ NaN \notin starts
               /\ \E D \in starts : starts = D..(D + Cardinality(starts) - 1)
               => /\ Len(events) = 1
                  /\ events[1].startDate \in starts
                  /\ \A D \in starts : events[1].startDate <= D
                  /\ events[1].endDate = events[1].startDate + Cardinality(starts)
        /\ page.fcEvents = <<FcElement(FiveJuan, Jan(10), Undefined),
                             FcElement(Juan, Jan(11), Undefined),
                             FcElement(Juan, Jan(15), Undefined)>>
               => /\ Len(events) = 2
                  /\ \A i \in 1..2 : events[i].title = Juan
                  /\ events[1].startDate = JanDay(10) /\ events[1].endDate = JanDay(12)
                  /\ events[2].startDate = JanDay(15) /\ events[2].endDate = JanDay(16)

\* three candidates on three consecutive days have collapsed into one event
C8_Witness ==
    /\ Returned /\ strategy = "dom"
    /\ page.fcEvents = <<FcElement(FiveJuan, Jan(10), Undefined),
                         FcElement(Juan, Jan(11), Undefined),
                         FcElement(Juan, Jan(12), Undefined)>>
    /\ Len(events) = 1
    /\ events[1].startDate = JanDay(10) /\ events[1].endDate = JanDay(13)

\* nothing intercepted, no widget, no matching element
SnapshotEmpty ==
    /\ interceptedCalendarData = <<>>
    /\ page.fc = JsNull
    /\ page.fcEvents = <<>> /\ page.multiDayEvents = <<>>
    /\ page.dayCells = <<>> /\ page.tableRows = <<>>
PastExtraction == Returned \/ failedAt = "extraction"

\* C9: with an empty snapshot the run does not fail and returns the empty
\* list; an absent input never makes it fail (a failing run has a payload or
\* a widget list that is present).
C9_EmptySnapshot ==
    /\ PastExtraction /\ SnapshotEmpty => ~thrown /\ Returned /\ events = <<>>
    /\ pc = "done" /\ SnapshotEmpty => icsWritten = <<<<>>>>
    /\ thrown => interceptedCalendarData # <<>> \/ page.fc # JsNull

\* the run on an empty snapshot has written the empty calendar
C9_Witness == pc = "done" /\ SnapshotEmpty /\ events = <<>> /\ icsWritten = <<<<>>>>

\* the payloads without the null payloads and the null records
WellFormedPart(payloads) ==
    LET present == SelectSeq(payloads, LAMBDA p : p.data # JsNull)
    IN  [i \in 1..Len(present) |->
            [url |-> present[i].url,
             data |-> Array(SelectSeq(EventsOfPayload(present[i].data),
                                      LAMBDA r : r # JsNull))]]

\* C10: extraction from the intercepted payloads never throws; a malformed
\* payload or record is skipped and all the others are mapped.
C10_InterceptedNeverThrows ==
    pc \notin {"start", "loggedIn", "onCalendar", "extract"}
        /\ interceptedCalendarData # <<>>
        => /\ ~thrown
           /\ apiEvents = ApiCandidates(WellFormedPart(interceptedCalendarData))

\* what each strategy yields on the snapshot: its normalised events with a
\* valid start (a null payload, record or widget element contributes nothing)
ApiYield == ProcessApi(ApiCandidates(WellFormedPart(interceptedCalendarData)))
WidgetYield ==
    IF page.fc = JsNull THEN <<>>
    ELSE ProcessFullCalendar(Array(SelectSeq(page.fc.items, LAMBDA e : e # JsNull)))
DomYield == ProcessDom(DomCandidates(page))
StrategyOrder == <<"api", "fullcalendar", "dom">>

\* C11: once extraction is over, the events come from the first strategy, in
\* the order API, widget, DOM, that yields at least one valid event; no later
\* strategy was consulted after it, and a strategy is used whenever all the
\* earlier ones yielded nothing.
C11_FirstSuccessWins ==
    PastExtraction =>
        /\ ApiYield # <<>> =>
               strategy = "api" /\ tried = SubSeq(StrategyOrder, 1, 1)
                   /\ processedEvents = ApiYield
        /\ ApiYield = <<>> /\ WidgetYield # <<>> =>
               strategy = "fullcalendar" /\ tried = SubSeq(StrategyOrder, 1, 2)
                   /\ processedEvents = WidgetYield
        /\ ApiYield = <<>> /\ WidgetYield = <<>> =>
               strategy = "dom" /\ tried = StrategyOrder
                   /\ processedEvents = DomYield

\* the process has ended
Ended == pc \in {"done", "exited", "crashed"}
FailedInTry == failedAt \in {"login", "navigation", "extraction", "write"}

\* C12: every run that has ended has a calendar file written, and a run in
\* which a step failed has invoked generateICS with the empty list.
C12_FailureStillWrites ==
    /\ Ended => icsWritten # <<>>
    /\ Ended /\ failedAt # "none" => \E i \in 1..Len(icsCalls) : icsCalls[i] = <<>>

\* what the catch block of main does give: a run that failed inside the try
\* block ends with generateICS([]) as its last call, and with the empty
\* calendar written unless that call threw as well
FallbackInvoked ==
    Ended /\ FailedInTry =>
        /\ icsCalls # <<>> /\ icsCalls[Len(icsCalls)] = <<>>
        /\ pc = "exited" => icsWritten = <<<<>>>>
        /\ pc = "crashed" => icsWritten = <<>>

\* C13: every event extraction returns has a title that is not empty.
C13_TitleNonEmpty ==
    Returned => \A i \in 1..Len(events) : events[i].title # <<>>

\* C14: two events with the same title and the same start day get the same
\* identifier, whatever their endDate, allDay and description are.
C14_UidOfTitleAndStart ==
    pc = "uidDone" /\ eventA.title = eventB.title /\ eventA.startDate = eventB.startDate
        => uidA = uidB

\* two events that agree on title and start only, with one identifier
C14_Witness ==
    /\ pc = "uidDone"
    /\ eventA.title = eventB.title /\ eventA.startDate = eventB.startDate
    /\ eventA.endDate # eventB.endDate
    /\ eventA.allDay # eventB.allDay
    /\ eventA.description # eventB.description
    /\ uidA = uidB

\* the end a candidate's explicit end gives: the parsed end when it is a valid
\* date later than the start, the day after the start otherwise
LaterEndOrNextDay(S, E) == IF ~IsNaN(E) /\ E > S THEN E ELSE S + 1

\* C15: a widget event's end is used only when it is present, a valid date
\* and later than the start; otherwise endDate is startDate plus one day.
C15_WidgetEndValidated ==
    strategy = "fullcalendar" =>
        LET kept == SelectSeq(page.fc.items,
                              LAMBDA e : Truthy(e.title) /\ ~IsNaN(DateParse(e.start)))
        IN  /\ Len(processedEvents) = Len(kept)
            /\ \A i \in 1..Len(kept) :
                   LET S == DateParse(kept[i].start)
                       E == IF Truthy(kept[i].end) THEN DateParse(kept[i].end) ELSE NaN
                   IN  /\ processedEvents[i].startDate = S
                       /\ processedEvents[i].endDate = LaterEndOrNextDay(S, E)

\* the API candidates whose start is a valid date, in order
ApiKept == SelectSeq(apiEvents, LAMBDA e : ~IsNaN(DateParse(e.start)))
EndOf(e) == IF Truthy(e.end) THEN DateParse(e.end) ELSE NaN

\* C16: an API record whose end is absent, unparseable or earlier than its
\* start gets endDate = startDate plus one day.
C16_ApiEndFallback ==
    strategy = "api" =>
        LET kept == ApiKept
        IN  /\ Len(processedEvents) = Len(kept)
            /\ \A i \in 1..Len(kept) :
                   LET S == DateParse(kept[i].start)
                       E == EndOf(kept[i])
                   IN  IsNaN(E) \/ E < S =>
                           /\ processedEvents[i].startDate = S
                           /\ processedEvents[i].endDate = S + 1

\* one payload with a record without end, one with an unparseable end and one
\* with an end before its start, each normalised to one day
C16_Witness ==
    /\ strategy = "api"
    /\ \E i, j, k \in 1..Len(ApiKept) :
           /\ ~Truthy(ApiKept[i].end)
           /\ Truthy(ApiKept[j].end) /\ IsNaN(EndOf(ApiKept[j]))
           /\ ~IsNaN(EndOf(ApiKept[k])) /\ EndOf(ApiKept[k]) < DateParse(ApiKept[k].start)
           /\ \A n \in {i, j, k} :
                  processedEvents[n].endDate = DateParse(ApiKept[n].start) + 1

\* the DOM candidates that are normalised and keep a valid start, in order
DomValid ==
    SelectSeq(DomCandidates(page),
              LAMBDA e : Truthy(e.start) /\ Truthy(e.title) /\ ~IsNaN(parseDate(e.start)))
DomEndOf(e) == IF Truthy(e.end) THEN parseDate(e.end) ELSE NaN

\* C17: a DOM candidate's endDate is its explicit end when that parses to a
\* date strictly later than the start, and startDate plus one day otherwise.
C17_DomEndValidated ==
    strategy = "dom" =>
        LET valid == DomValid
        IN  /\ Len(processedEvents) = Len(valid)
            /\ \A i \in 1..Len(valid) :
                   LET S == parseDate(valid[i].start)
                   IN  /\ processedEvents[i].startDate = S
                       /\ processedEvents[i].endDate = LaterEndOrNextDay(S, DomEndOf(valid[i]))

\* elements with a later, an equal, an earlier, an unparseable and no end
C17_Witness ==
    /\ strategy = "dom"
    /\ \E a, b, c, d, e \in 1..Len(DomValid) :
           /\ DomEndOf(DomValid[a]) > parseDate(DomValid[a].start)
           /\ processedEvents[a].endDate = DomEndOf(DomValid[a])
           /\ DomEndOf(DomValid[b]) = parseDate(DomValid[b].start)
           /\ ~IsNaN(DomEndOf(DomValid[c]))
           /\ DomEndOf(DomValid[c]) < parseDate(DomValid[c].start)
           /\ Truthy(DomValid[d].end) /\ IsNaN(DomEndOf(DomValid[d]))
           /\ ~Truthy(DomValid[e].end)
           /\ \A n \in {b, c, d, e} :
                  processedEvents[n].endDate = parseDate(DomValid[n].start) + 1

\* C18: no candidate of the DOM strategies has a title that is empty, purely
\* numeric, or TitleLimit characters or longer.
C18_DomTitlesFiltered ==
    strategy = "dom" =>
        \A i \in 1..Len(rawEvents) :
            /\ Truthy(rawEvents[i].title) /\ rawEvents[i].title # <<>>
            /\ ~AllDigits(rawEvents[i].title)
            /\ Len(rawEvents[i].title) < TitleLimit

\* the alias orders of the claim
TitleOrder == <<"title", "name", "nombre", "employee_name", "empleado",
                "description", "descripcion">>
StartOrder == <<"start", "start_date", "fecha_inicio", "startDate", "begin", "inicio">>
EndOrder == <<"end", "end_date", "fecha_fin", "endDate", "finish", "fin">>

\* the value of the first alias of the order that is present and non-empty
FirstPresent(r, order) ==
    LET present == {i \in 1..Len(order) : Truthy(Get(r, order[i]))}
    IN  IF present = {} THEN Undefined
        ELSE Get(r, order[CHOOSE i \in present : \A j \in present : i <= j])

\* the records of all payloads, in order, and those with a title and a start
InterceptedRecords ==
    Flatten([i \in 1..Len(interceptedCalendarData) |->
                 EventsOfPayload(interceptedCalendarData[i].data)])
UsableRecords ==
    SelectSeq(InterceptedRecords,
              LAMBDA r : Truthy(FirstPresent(r, TitleOrder)) /\ Truthy(FirstPresent(r, StartOrder)))
PayloadsMapped ==
    /\ tried # <<>> /\ interceptedCalendarData # <<>>
    /\ \A i \in 1..Len(interceptedCalendarData) :
           ~PayloadThrows(interceptedCalendarData[i].data)

\* C19: each field of an API candidate is the value of the first alias, in
\* the fixed order, that is present and non-empty in its record.
C19_FirstAliasWins ==
    PayloadsMapped =>
        LET usable == UsableRecords
        IN  /\ Len(apiEvents) = Len(usable)
            /\ \A i \in 1..Len(usable) :
                   LET r == usable[i]
                   IN  /\ apiEvents[i].title = cleanTitle(FirstPresent(r, TitleOrder))
                       /\ apiEvents[i].start = FirstPresent(r, StartOrder)
                       /\ Truthy(apiEvents[i].end) = Truthy(FirstPresent(r, EndOrder))
                       /\ Truthy(apiEvents[i].end) =>
                              apiEvents[i].end = FirstPresent(r, EndOrder)

\* a record with an empty title and two later title aliases, two start
\* aliases and two end aliases has been mapped from the first of each
C19_Witness ==
    /\ PayloadsMapped
    /\ \E i \in 1..Len(UsableRecords) :
           LET r == UsableRecords[i]
           IN  /\ Get(r, "title") = <<>> /\ Get(r, "name") = Ana /\ Get(r, "nombre") = Juan
               /\ ~Truthy(Get(r, "start"))
               /\ Get(r, "start_date") = Feb(12) /\ Get(r, "startDate") = Feb(20)
               /\ Get(r, "end_date") = Feb(14) /\ Get(r, "fin") = Feb(25)
               /\ apiEvents[i].title = Ana
               /\ apiEvents[i].start = Feb(12)
               /\ apiEvents[i].end = Feb(14)

\* the length of the leading run of digits
LeadingDigits(s) ==
    CHOOSE n \in 0..Len(s) :
        /\ \A i \in 1..n : IsDigit(s[i])
        /\ n = Len(s) \/ ~IsDigit(s[n + 1])

\* the maximal runs of non-whitespace characters, and their join by one space
RECURSIVE Words(_)
Words(s) ==
    LET t == TrimLeft(s)
    IN  IF t = <<>> THEN <<>>
        ELSE LET n == CHOOSE k \in 1..Len(t) :
                          /\ \A i \in 1..k : ~IsSpace(t[i])
                          /\ k = Len(t) \/ IsSpace(t[k + 1])
             IN  <<SubSeq(t, 1, n)>> \o Words(SubSeq(t, n + 1, Len(t)))
RECURSIVE Join(_)
Join(ws) ==
    IF ws = <<>> THEN <<>>
    ELSE IF Len(ws) = 1 THEN ws[1]
    ELSE ws[1] \o <<" ">> \o Join(Tail(ws))

\* C20: cleanTitle drops a leading run of one or two digits exactly when a
\* non-digit follows it, keeps the digits of a purely numeric title and of a
\* title that starts with three or more digits, and returns the words of
\* what is left joined by single spaces: no whitespace at either end, no two
\* whitespace characters in a row.
C20_CleanTitleRule ==
    pc \in {"cleaned", "recleaned"} /\ Truthy(title) =>
        LET n    == LeadingDigits(title)
            rest == IF n \in 1..2 /\ n < Len(title)
                    THEN SubSeq(title, n + 1, Len(title)) ELSE title
        IN  /\ once = Join(Words(rest))
            /\ once # <<>> => ~IsSpace(once[1]) /\ ~IsSpace(once[Len(once)])
            /\ \A i \in 1..(Len(once) - 1) : ~(IsSpace(once[i]) /\ IsSpace(once[i + 1]))
            /\ n >= 3 \/ n = Len(title) =>
                   LeadingDigits(once) = n /\ SubSeq(once, 1, n) = SubSeq(title, 1, n)

\* a two-digit day number before a name has been dropped
C20_Witness == pc = "cleaned" /\ title = <<"1", "2", "x", " ">> /\ once = <<"x">>

\* two titles are equal ignoring letter case
EqualIgnoringCase(s, t) ==
    /\ Len(s) = Len(t)
    /\ \A i \in 1..Len(s) :
           \/ s[i] = t[i]
           \/ \E k \in 1..Len(UpperChars) : {s[i], t[i]} = {UpperChars[k], LowerChars[k]}
GroupLike(evs, ttl) == SelectSeq(evs, LAMBDA e : EqualIgnoringCase(e.title, ttl))

\* a group in ascending startDate order, equal starts in input order
Ascending(g) ==
    LET rank(i) == 1 + Cardinality({j \in 1..Len(g) :
                                        \/ g[j].startDate < g[i].startDate
                                        \/ g[j].startDate = g[i].startDate /\ j < i})
    IN  [r \in 1..Len(g) |-> g[CHOOSE i \in 1..Len(g) : rank(i) = r]]

Later(a, b) == IF GT(b, a) THEN b ELSE a

\* the sweep of the claim over g[i..]: `out` ends with the current event
RECURSIVE Sweep(_, _, _)
Sweep(g, i, out) ==
    IF i > Len(g) THEN out
    ELSE IF out # <<>> /\ LE(Sub(g[i].startDate, out[Len(out)].endDate), 1)
    THEN Sweep(g, i + 1,
               [out EXCEPT ![Len(out)].endDate = Later(out[Len(out)].endDate, g[i].endDate)])
    ELSE Sweep(g, i + 1, Append(out, g[i]))

\* C21: per group of titles equal ignoring case, the returned events are the
\* result of sweeping the group in ascending startDate order, merging the
\* next event into the current one exactly when its start is at most one day
\* after the current end (the end becomes the later of the two), and opening
\* a new event otherwise; a merged event keeps the first event's start.
C21_SweepMerges ==
    Returned =>
        /\ \A n \in 1..Len(processedEvents) :
               LET ttl == processedEvents[n].title
               IN  GroupLike(events, ttl)
                       = Sweep(Ascending(GroupLike(processedEvents, ttl)), 1, <<>>)
        /\ \A i \in 1..Len(events) :
               \E n \in 1..Len(processedEvents) :
                   EqualIgnoringCase(events[i].title, processedEvents[n].title)

\* two events of one title in two letter cases, later start first, merged
\* into one event that starts with the earlier and ends with the later
C21_Witness ==
    /\ Returned
    /\ Len(processedEvents) = 2 /\ Len(events) = 1
    /\ processedEvents[1].title # processedEvents[2].title
    /\ processedEvents[1].startDate > processedEvents[2].startDate
    /\ events[1].startDate = processedEvents[2].startDate
    /\ events[1].endDate = processedEvents[1].endDate
    /\ events[1].endDate > processedEvents[2].endDate

\* the candidates of each strategy that have a title and a start that is a
\* date, in order
ApiDated ==
    SelectSeq(UsableRecords, LAMBDA r : ~IsNaN(DateParse(FirstPresent(r, StartOrder))))
WidgetDated ==
    SelectSeq(page.fc.items, LAMBDA e : Truthy(e.title) /\ ~IsNaN(DateParse(e.start)))
DomDated ==
    SelectSeq(DomCandidates(page), LAMBDA e : Truthy(e.title) /\ ~Malformed(e.start))

\* C22: in every strategy the normalised events are exactly the candidates
\* whose start is a date, in order: a candidate with a missing, empty or
\* unparseable start gives no event, the others all do, and no error is raised
\* on its account.
C22_BadStartDropped ==
    /\ strategy = "api" =>
           LET dated == ApiDated
           IN  /\ Len(processedEvents) = Len(dated)
               /\ \A i \in 1..Len(dated) :
                      processedEvents[i].startDate
                          = DateParse(FirstPresent(dated[i], StartOrder))
    /\ strategy = "fullcalendar" =>
           LET dated == WidgetDated
           IN  /\ Len(processedEvents) = Len(dated)
               /\ \A i \in 1..Len(dated) :
                      processedEvents[i].startDate = DateParse(dated[i].start)
    /\ strategy = "dom" =>
           LET dated == DomDated
           IN  /\ Len(processedEvents) = Len(dated)
               /\ \A i \in 1..Len(dated) :
                      processedEvents[i].title = cleanTitle(dated[i].title)
    /\ thrown =>
           \/ \E i \in 1..Len(interceptedCalendarData) :
                  PayloadThrows(interceptedCalendarData[i].data)
           \/ FullCalendarFound(page.fc) /\ FullCalendarThrows(page.fc)

\* C23: in a list handed to generateICS no two events have the same title
\* ignoring letter case and the same startDate, and no two get the same
\* identifier from generateUID.
C23_NoTwinEvents ==
    \A c \in 1..Len(icsCalls) :
        LET list == icsCalls[c]
        IN  \A i, j \in 1..Len(list) :
                i < j =>
                    /\ ~(/\ EqualIgnoringCase(list[i].title, list[j].title)
                         /\ list[i].startDate = list[j].startDate)
                    /\ generateUID(list[i]) # generateUID(list[j])

\* C24: after deduplicateEvents the argument array holds the same objects in
\* the same order with the same title, startDate, endDate, allDay and
\* description; the returned array refers to copies only, and an endDate was
\* changed only on a copy that is in the returned array.
C24_InputUnchanged ==
    pc = "deduped" =>
        LET n == Len(given)
        IN  /\ inputObjs = given
            /\ \A k \in 1..Len(result) : result[k] \in (n + 1)..(2 * n)
            /\ \A i \in 1..n :
                   /\ copyObjs[i] = [given[i] EXCEPT !.ref = n + i,
                                                     !.endDate = copyObjs[i].endDate]
                   /\ copyObjs[i].endDate # given[i].endDate
                          => \E k \in 1..Len(result) : result[k] = n + i

\* two events were merged: the returned copy ends later than the event it
\* was copied from, which still ends as it did
C24_Witness ==
    /\ pc = "deduped"
    /\ Len(given) = 2 /\ Len(result) = 1
    /\ \E i \in 1..2 :
           /\ result[1] = 2 + i
           /\ copyObjs[i].endDate > given[i].endDate
           /\ inputObjs[i].endDate = given[i].endDate

\* a handler that completes after extraction started changes nothing: the
\* candidates and events are those of the list extraction read
LateResponseHarmless ==
    /\ tried # <<>> /\ ~thrown => apiEvents = ApiCandidates(snapshot.read)
    /\ strategy = "api" => processedEvents = ProcessApi(ApiCandidates(snapshot.read))
    /\ strategy \in {"fullcalendar", "dom"} => ProcessApi(apiEvents) = <<>>

\* C25: every response that arrived before extraction started is in the
\* payload list extraction read, and a handler that completes later changes
\* nothing of the run's events.
C25_ConsumedWholesale ==
    /\ tried # <<>> => snapshot.inFlight = <<>>
    /\ LateResponseHarmless

====
